---- MODULE Spec2Model ----
(***************************************************************************)
(* Model of src/src/offset.rs (geo-offset): the Offset trait, its          *)
(* implementations for the geo_types geometries, and create_arc.           *)
(*                                                                         *)
(* Numbers.  Coordinates are lattice integers.  A distance is a float,     *)
(* kept as sign bit and magnitude so that +0.0 and -0.0 are two values.    *)
(* Angles and arc lengths are fixed-point: one unit is TAU/8 radians (45   *)
(* degrees), so TAU is 8 units, and an arc length is angle units times     *)
(* radius.  The angles create_arc interpolates are rationals num/den.      *)
(*                                                                         *)
(* Vertices.  A vertex that the code computes as centre + r*(cos, sin) is  *)
(* kept in that polar form [c, r, num, den, neg]; atan2 about c reads the  *)
(* angle back.  neg is the sign bit of a zero angle (atan2 yields -0.0     *)
(* when the y difference is -0.0).                                         *)
(*                                                                         *)
(* Polygons.  A polygon is its exterior vertex list together with the set  *)
(* of lattice points of the shape it outlines (cells).  The boolean engine *)
(* (geo_clipper) works on the cells; the outline it gives its output, and  *)
(* the way it splits and orders its output polygons, are its own: the      *)
(* outline is left empty and the split is the variable cut.                *)
(***************************************************************************)
EXTENDS Integers, Sequences, FiniteSets

VARIABLES op, pc, geometry, distance, arc_resolution, cut, result, arc, vertices

vars == <<op, pc, geometry, distance, arc_resolution, cut, result, arc, vertices>>

---------------------------------------------------------------------------
(* Bounds of the model *)

MaxCoord == 1
MaxDist == 1
MaxVertices == 3
MaxSegments == 2
MaxSegLen == 2
MaxMembers == 2

(* Program constants *)

TAU == 8

---------------------------------------------------------------------------
(* Floats: the distance *)

Distances == [neg : BOOLEAN, mag : 0..MaxDist]

\* distance < F::zero()
LtZero(d) == d.neg /\ d.mag > 0

\* distance.abs()
abs(d) == [neg |-> FALSE, mag |-> d.mag]

\* distance.is_sign_positive()
is_sign_positive(d) == ~d.neg

\* d >= 0 as a comparison of values: both zeros are >= 0
GeZero(d) == ~LtZero(d)

---------------------------------------------------------------------------
(* ArcResolution *)

SegmentCount(n) == [kind |-> "SegmentCount", n |-> n, len |-> 0]

SegmentLength(l) == [kind |-> "SegmentLength", n |-> 0, len |-> l]

\* a default of three segments instead of five
DefaultWrong == SegmentCount(3)

Default == SegmentCount(5)

ArcResolutions ==
    {SegmentCount(n) : n \in 0..MaxSegments} \cup {Default}
        \cup {SegmentLength(l) : l \in 1..MaxSegLen}

\* (x / y).to_usize() for x >= 0, y > 0: the float is truncated
to_usize(x, y) == x \div y

Ceil(x, y) == (x + y - 1) \div y

Max(a, b) == IF a >= b THEN a ELSE b

---------------------------------------------------------------------------
(* Vertices and angles *)

Coords == (0..MaxCoord) \X (0..MaxCoord)

PolarVertex(c, r, num, den) == [c |-> c, r |-> r, num |-> num, den |-> den, neg |-> FALSE]

\* (v.y - center.y).atan2(v.x - center.x) for a vertex at distance v.r from
\* center: [v |-> the angle, neg |-> its sign bit].  A vertex at distance 0
\* gives atan2(+0.0, +0.0) = +0.0.
atan2(v, center) ==
    IF v.r = 0 THEN [v |-> 0, neg |-> FALSE]
    ELSE [v |-> v.num, neg |-> v.num < 0 \/ (v.num = 0 /\ v.neg)]

\* if a.is_sign_negative() { a + TAU } else { a }
normalize_angle(a) == IF a.neg THEN a.v + TAU ELSE a.v

\* the comparison taken as >=: equal angles sweep nothing
swept_angle_zero(start_angle, end_angle) ==
    IF start_angle >= end_angle THEN start_angle - end_angle
    ELSE start_angle + TAU - end_angle

swept_angle(start_angle, end_angle) ==
    IF start_angle > end_angle THEN start_angle - end_angle
    ELSE start_angle + TAU - end_angle

arc_segment_count(res, angle, radius) ==
    IF res.kind = "SegmentCount" THEN res.n
    ELSE to_usize(angle * radius, res.len)

\* segment_angle * segment_count: the numerator of the step
segment_angle_num(angle, outwards) == IF outwards THEN -angle ELSE TAU - angle

\* the end vertex recomputed from its angle instead of pushed as given
create_arc_recomputed_end(vs, center, radius, start_vertex, end_vertex, res, outwards) ==
    LET start_angle == normalize_angle(atan2(start_vertex, center))
        end_angle == normalize_angle(atan2(end_vertex, center))
        angle == swept_angle(start_angle, end_angle)
        segment_count == arc_segment_count(res, angle, radius)
        step == segment_angle_num(angle, outwards)
    IN  vs \o <<start_vertex>>
           \o [i \in 1..segment_count |->
                 PolarVertex(center, radius, start_angle * segment_count + step * i, segment_count)]

create_arc(vs, center, radius, start_vertex, end_vertex, res, outwards) ==
    LET start_angle == normalize_angle(atan2(start_vertex, center))
        end_angle == normalize_angle(atan2(end_vertex, center))
        angle == swept_angle(start_angle, end_angle)
        segment_count == arc_segment_count(res, angle, radius)
        step == segment_angle_num(angle, outwards)
    IN  vs \o <<start_vertex>>
           \o [i \in 1..Max(segment_count - 1, 0) |->
                 PolarVertex(center, radius, start_angle * segment_count + step * i, segment_count)]
           \o <<end_vertex>>

---------------------------------------------------------------------------
(* Results *)

Ok(polys) == [ok |-> TRUE, polys |-> polys, err |-> "none"]

Err(e) == [ok |-> FALSE, polys |-> <<>>, err |-> e]

NoResult == [ok |-> FALSE, polys |-> <<>>, err |-> "pending"]

---------------------------------------------------------------------------
(* Shapes as sets of lattice points *)

Window == ((0 - MaxDist)..(MaxCoord + MaxDist)) \X ((0 - MaxDist)..(MaxCoord + MaxDist))

Dot(a, b) == a[1] * b[1] + a[2] * b[2]

Sub(a, b) == <<a[1] - b[1], a[2] - b[2]>>

Cross(a, b) == a[1] * b[2] - a[2] * b[1]

\* the lattice points within r of the point p
Disk(p, r) == {c \in Window : Dot(Sub(c, p), Sub(c, p)) <= r * r}

\* the lattice points within r of the segment a-b
Capsule(a, b, r) ==
    {c \in Window :
        LET ab == Sub(b, a)
            ac == Sub(c, a)
            t == Dot(ac, ab)
            l2 == Dot(ab, ab)
        IN  IF t <= 0 THEN Dot(ac, ac) <= r * r
            ELSE IF t >= l2 THEN Dot(Sub(c, b), Sub(c, b)) <= r * r
            ELSE Dot(ac, ac) * l2 - t * t <= r * r * l2}

\* the cells of a polygon set
Cells(polys) == UNION {polys[i].cells : i \in DOMAIN polys}

---------------------------------------------------------------------------
(* geo_clipper: union and difference of polygon sets *)

clipper_factor == 1000

\* The polygons the engine returns for a region: the region itself, or the
\* region split along cut, in the engine's order.
Enumerate(region) ==
    LET a == region \cap cut
        b == region \ cut
        P(cs) == [exterior |-> <<>>, cells |-> cs]
    IN  IF region = {} THEN <<>>
        ELSE IF a = {} THEN <<P(b)>>
        ELSE IF b = {} THEN <<P(a)>>
        ELSE <<P(a), P(b)>>

union(subject, clip, factor) == Enumerate(subject \cup clip)

difference(subject, clip, factor) == Enumerate(subject \ clip)

---------------------------------------------------------------------------
(* Edge: the edge utility of the crate *)

\* the direction of b - a in angle units, for the eight lattice directions
Sign(x) == IF x > 0 THEN 1 ELSE IF x < 0 THEN -1 ELSE 0

Aligned(a, b) ==
    LET d == Sub(b, a) IN d[1] = 0 \/ d[2] = 0 \/ d[1] = d[2] \/ d[1] = 0 - d[2]

DirAngle(a, b) ==
    LET s == <<Sign(b[1] - a[1]), Sign(b[2] - a[2])>>
        u == TAU \div 8
    IN  CASE s = <<1, 0>> -> 0
          [] s = <<1, 1>> -> u
          [] s = <<0, 1>> -> 2 * u
          [] s = <<-1, 1>> -> 3 * u
          [] s = <<-1, 0>> -> 4 * u
          [] s = <<-1, -1>> -> 5 * u
          [] s = <<0, -1>> -> 6 * u
          [] s = <<1, -1>> -> 7 * u

\* an angle brought into atan2's range (-TAU/2, TAU/2]
Principal(a) == LET m == a % TAU IN IF 2 * m > TAU THEN m - TAU ELSE m

Edge_new(current, next) == [current |-> current, next |-> next]

\* Err when the two vertices coincide, else the unit normal, by its angle
inwards_normal(e) ==
    IF e.current = e.next THEN [ok |-> FALSE, angle |-> 0]
    ELSE [ok |-> TRUE, angle |-> Principal(DirAngle(e.current, e.next) + TAU \div 4)]

outwards_normal(e) ==
    LET inwards == inwards_normal(e)
    IN  IF ~inwards.ok THEN inwards
        ELSE [ok |-> TRUE, angle |-> Principal(inwards.angle + TAU \div 2)]

\* the edge moved by normal * distance
with_offset(e, normal, r) ==
    [current |-> PolarVertex(e.current, r, normal.angle, 1),
     next |-> PolarVertex(e.next, r, normal.angle, 1)]

inverse_with_offset(e, normal, r) ==
    [current |-> PolarVertex(e.next, r, normal.angle, 1),
     next |-> PolarVertex(e.current, r, normal.angle, 1)]

---------------------------------------------------------------------------
(* Offset for Point *)

point_segment_count(res, d) ==
    Max(IF res.kind = "SegmentCount" THEN res.n
        ELSE to_usize(TAU * d.mag, res.len), 3)

\* without the early return of lines 281-283
offset_Point_no_guard(p, d, res) ==
    LET segment_count == point_segment_count(res, d)
    IN  Ok(<<[exterior |-> [i \in 1..segment_count |->
                               PolarVertex(p, d.mag, i * TAU, segment_count)],
              cells |-> Disk(p, d.mag)]>>)

offset_Point(p, d, res) ==
    IF LtZero(d) THEN Ok(<<>>)
    ELSE LET segment_count == point_segment_count(res, d)
         IN  Ok(<<[exterior |-> [i \in 1..segment_count |->
                                    PolarVertex(p, d.mag, i * TAU, segment_count)],
                   cells |-> Disk(p, d.mag)]>>)

---------------------------------------------------------------------------
(* Offset for Line *)

\* lines 223-248: the capsule outline, two arcs around v1 and v2
line_capsule(line, d, res, in_normal, out_normal) ==
    LET v1 == line.start
        v2 == line.end
        e1 == Edge_new(v1, v2)
        offsets == <<with_offset(e1, in_normal, d.mag),
                     inverse_with_offset(e1, out_normal, d.mag)>>
        len == 2
        \* vs[k]: vertices after the iterations i = 0 .. k-1
        vs[k \in 0..len] ==
            IF k = 0 THEN <<>>
            ELSE LET i == k - 1
                     current_edge == offsets[i + 1]
                     prev_edge == offsets[((i + len + 1) % len) + 1]
                 IN  create_arc(vs[k - 1], IF i = 0 THEN v1 ELSE v2, d.mag,
                                prev_edge.next, current_edge.current, res, TRUE)
    IN  Ok(<<[exterior |-> vs[len], cells |-> Capsule(v1, v2, d.mag)]>>)

\* the normals' failure returned instead of the fallback of line 250
offset_Line_no_fallback(line, d, res) ==
    IF LtZero(d) THEN Ok(<<>>)
    ELSE LET e1 == Edge_new(line.start, line.end)
             in_normal == inwards_normal(e1)
             out_normal == outwards_normal(e1)
         IN  IF in_normal.ok /\ out_normal.ok
             THEN line_capsule(line, d, res, in_normal, out_normal)
             ELSE Err("EdgeError")

offset_Line(line, d, res) ==
    IF LtZero(d) THEN Ok(<<>>)
    ELSE LET e1 == Edge_new(line.start, line.end)
             in_normal == inwards_normal(e1)
             out_normal == outwards_normal(e1)
         IN  IF in_normal.ok /\ out_normal.ok
             THEN line_capsule(line, d, res, in_normal, out_normal)
             ELSE offset_Point(line.start, d, res)

---------------------------------------------------------------------------
(* Offset for LineString *)

\* self.lines(): the segments between consecutive coordinates
lines(ls) ==
    IF Len(ls) < 2 THEN <<>>
    ELSE [i \in 1..(Len(ls) - 1) |-> [start |-> ls[i], end |-> ls[i + 1]]]

\* the fold of line 193-202 over the polygons u: the first, minus each later one
\* the union returned as it is, without the fold
carve_holes_none(u) == u

carve_holes(u) ==
    LET acc[k \in 1..Max(Len(u), 1)] ==
            IF k = 1 THEN (IF Len(u) = 0 THEN <<>> ELSE <<u[1]>>)
            ELSE difference(Cells(acc[k - 1]), u[k].cells, clipper_factor)
    IN  acc[Max(Len(u), 1)]

\* One turn of a folding loop, `let x = child.offset(..)?; acc = acc.union(&x, factor)`:
\* a failure, of an earlier turn or of this child, is what the loop returns.
\* The child is an argument, evaluated only when the earlier turns succeeded.
union_next(acc, child) ==
    IF ~acc.ok THEN acc
    ELSE IF ~child.ok THEN child
    ELSE Ok(union(Cells(acc.polys), Cells(child.polys), clipper_factor))

\* the loop over segments that fail when their vertices coincide
line_string_union_strict(ls, d, res) ==
    LET acc[k \in 0..Len(lines(ls))] ==
            IF k = 0 THEN Ok(<<>>)
            ELSE union_next(acc[k - 1], offset_Line_no_fallback(lines(ls)[k], d, res))
    IN  acc[Len(lines(ls))]

\* the loop of lines 186-191
line_string_union(ls, d, res) ==
    LET acc[k \in 0..Len(lines(ls))] ==
            IF k = 0 THEN Ok(<<>>)
            ELSE union_next(acc[k - 1], offset_Line(lines(ls)[k], d, res))
    IN  acc[Len(lines(ls))]

\* lines 193-204, on the outcome u of the loop
carve_result(u) == IF ~u.ok THEN u ELSE Ok(carve_holes(u.polys))

offset_LineString(ls, d, res) ==
    IF LtZero(d) THEN Ok(<<>>)
    ELSE carve_result(line_string_union(ls, d, res))

---------------------------------------------------------------------------
(* Offset for MultiLineString and MultiPoint *)

offset_MultiLineString(mls, d, res) ==
    IF LtZero(d) THEN Ok(<<>>)
    ELSE LET acc[k \in 0..Len(mls)] ==
                 IF k = 0 THEN Ok(<<>>)
                 ELSE union_next(acc[k - 1], offset_LineString(mls[k], d, res))
         IN  acc[Len(mls)]

offset_MultiPoint(mp, d, res) ==
    IF LtZero(d) THEN Ok(<<>>)
    ELSE LET acc[k \in 0..Len(mp)] ==
                 IF k = 0 THEN Ok(<<>>)
                 ELSE union_next(acc[k - 1], offset_Point(mp[k], d, res))
         IN  acc[Len(mp)]

---------------------------------------------------------------------------
(* Offset for Polygon and MultiPolygon *)

\* c is inside the convex ring or on its border
InRing(c, ring) ==
    /\ \E i \in DOMAIN ring : ring[i][1] <= c[1]
    /\ \E i \in DOMAIN ring : ring[i][1] >= c[1]
    /\ \E i \in DOMAIN ring : ring[i][2] <= c[2]
    /\ \E i \in DOMAIN ring : ring[i][2] >= c[2]
    /\ \/ \A i \in 1..(Len(ring) - 1) : Cross(Sub(ring[i + 1], ring[i]), Sub(c, ring[i])) >= 0
       \/ \A i \in 1..(Len(ring) - 1) : Cross(Sub(ring[i + 1], ring[i]), Sub(c, ring[i])) <= 0

StrictlyInRing(c, ring) ==
    \/ \A i \in 1..(Len(ring) - 1) : Cross(Sub(ring[i + 1], ring[i]), Sub(c, ring[i])) > 0
    \/ \A i \in 1..(Len(ring) - 1) : Cross(Sub(ring[i + 1], ring[i]), Sub(c, ring[i])) < 0

\* the lattice points of a polygon with convex rings: in the exterior, in no hole
PolygonCells(p) ==
    {c \in Window :
        /\ InRing(c, p.exterior)
        /\ \A h \in DOMAIN p.interiors : ~StrictlyInRing(c, p.interiors[h])}

\* self.union(e, factor).union(i, factor)
grow(self, e, i) ==
    union(Cells(union(self, Cells(e), clipper_factor)), Cells(i), clipper_factor)

\* self.difference(e, factor).difference(i, factor)
shrink(self, e, i) ==
    difference(Cells(difference(self, Cells(e), clipper_factor)), Cells(i), clipper_factor)

\* lines 139-151, on the outcomes of the two ring offsets
polygon_with_offset(p, d, exterior_with_offset, interiors_with_offset) ==
    IF ~exterior_with_offset.ok THEN exterior_with_offset
    ELSE IF ~interiors_with_offset.ok THEN interiors_with_offset
    ELSE Ok(IF is_sign_positive(d)
            THEN grow(PolygonCells(p), exterior_with_offset.polys, interiors_with_offset.polys)
            ELSE shrink(PolygonCells(p), exterior_with_offset.polys, interiors_with_offset.polys))

offset_Polygon(p, d, res) ==
    polygon_with_offset(p, d, offset_LineString(p.exterior, abs(d), res),
                        offset_MultiLineString(p.interiors, abs(d), res))

offset_MultiPolygon(mp, d, res) ==
    LET acc[k \in 0..Len(mp)] ==
            IF k = 0 THEN Ok(<<>>)
            ELSE union_next(acc[k - 1], offset_Polygon(mp[k], d, res))
    IN  acc[Len(mp)]

---------------------------------------------------------------------------
(* Offset for Geometry and GeometryCollection *)

\* geo_types: Rect::to_polygon and Triangle::to_polygon
Rect_to_polygon(r) ==
    [exterior |-> <<r.min, <<r.min[1], r.max[2]>>, r.max, <<r.max[1], r.min[2]>>, r.min>>,
     interiors |-> <<>>]

Triangle_to_polygon(t) == [exterior |-> <<t.a, t.b, t.c, t.a>>, interiors |-> <<>>]

RECURSIVE offset_Geometry(_, _, _)

offset_GeometryCollection(gc, d, res) ==
    LET acc[k \in 0..Len(gc)] ==
            IF k = 0 THEN Ok(<<>>)
            ELSE union_next(acc[k - 1], offset_Geometry(gc[k], d, res))
    IN  acc[Len(gc)]

offset_Geometry(g, d, res) ==
    CASE g.type = "Point" -> offset_Point(g.point, d, res)
      [] g.type = "Line" -> offset_Line(g.line, d, res)
      [] g.type = "LineString" -> offset_LineString(g.line_string, d, res)
      [] g.type = "Triangle" -> offset_Polygon(Triangle_to_polygon(g.triangle), d, res)
      [] g.type = "Rect" -> offset_Polygon(Rect_to_polygon(g.rect), d, res)
      [] g.type = "Polygon" -> offset_Polygon(g.polygon, d, res)
      [] g.type = "MultiPoint" -> offset_MultiPoint(g.multi_point, d, res)
      [] g.type = "MultiLineString" -> offset_MultiLineString(g.multi_line_string, d, res)
      [] g.type = "MultiPolygon" -> offset_MultiPolygon(g.multi_polygon, d, res)
      [] g.type = "GeometryCollection" -> offset_GeometryCollection(g.geometry_collection, d, res)

\* Offset::offset_with_arc_resolution, by the type of self
offset_with_arc_resolution(g, d, res) == offset_Geometry(g, d, res)

\* Offset::offset
offset(g, d) == offset_with_arc_resolution(g, d, Default)

---------------------------------------------------------------------------
(* The inputs of a call *)

SeqsUpTo(S, n) == UNION {[1..k -> S] : k \in 0..n}

\* geo_types::Geometry, one constructor for each variant
GPoint(v) == [type |-> "Point", point |-> v]

GLine(v) == [type |-> "Line", line |-> v]

GLineString(v) == [type |-> "LineString", line_string |-> v]

GTriangle(v) == [type |-> "Triangle", triangle |-> v]

GRect(v) == [type |-> "Rect", rect |-> v]

GPolygon(v) == [type |-> "Polygon", polygon |-> v]

GMultiPoint(v) == [type |-> "MultiPoint", multi_point |-> v]

GMultiLineString(v) == [type |-> "MultiLineString", multi_line_string |-> v]

GMultiPolygon(v) == [type |-> "MultiPolygon", multi_polygon |-> v]

GGeometryCollection(v) == [type |-> "GeometryCollection", geometry_collection |-> v]

\* the resolutions tried on the geometries that go through the engine
CompoundResolutions == {Default, SegmentLength(1)}

\* the ways the engine may split its output: not at all, or along x = k
Cuts == {{}} \cup {{c \in Window : c[1] < k} : k \in 1..MaxCoord}

Origin == <<0, 0>>

Far == <<MaxCoord, MaxCoord>>

Lines == {l \in [start : Coords, end : Coords] : Aligned(l.start, l.end)}

\* a polyline whose first and third segments cross
CrossingLineString == <<Origin, Far, <<MaxCoord, 0>>, <<0, MaxCoord>>>>

\* the polylines from the origin, and the crossing one
LineStrings ==
    {ls \in SeqsUpTo(Coords, MaxVertices) :
        /\ Len(ls) >= 1 => ls[1] = Origin
        /\ \A i \in 1..(Len(ls) - 1) : Aligned(ls[i], ls[i + 1])}
        \cup {CrossingLineString}

SampleLineStrings ==
    {<<>>, <<Origin>>, <<Origin, Origin>>, <<Origin, <<MaxCoord, 0>>>>,
     <<(<<MaxCoord, 0>>), Far, Far>>}

MultiPoints == SeqsUpTo({<<i, i>> : i \in 0..MaxCoord}, MaxMembers)

Rects == {r \in [min : {Origin}, max : Coords] : TRUE}

Triangles ==
    {t \in [a : {Origin}, b : Coords, c : {<<0, MaxCoord>>}] :
        Aligned(t.a, t.b) /\ Aligned(t.b, t.c)}

HoleRings == {Rect_to_polygon(r).exterior : r \in Rects}

Polygons ==
    {[exterior |-> e, interiors |-> i] :
        e \in {Rect_to_polygon(r).exterior : r \in Rects}
                \cup {Triangle_to_polygon(t).exterior : t \in Triangles},
        i \in {<<>>} \cup {<<h>> : h \in HoleRings}}

SamplePolygons ==
    {Rect_to_polygon([min |-> Origin, max |-> Far]),
     Rect_to_polygon([min |-> Origin, max |-> <<MaxCoord, 0>>]),
     [exterior |-> Triangle_to_polygon([a |-> Origin, b |-> Far, c |-> <<0, MaxCoord>>]).exterior,
      interiors |-> <<Rect_to_polygon([min |-> Origin, max |-> Origin]).exterior>>]}

SampleGeometries ==
    {GPoint(Far),
     GLine([start |-> <<0, MaxCoord>>, end |-> <<0, MaxCoord>>]),
     GLineString(<<Origin, Far, Far, <<0, MaxCoord>>>>),
     GTriangle([a |-> Origin, b |-> <<MaxCoord, 0>>, c |-> <<0, MaxCoord>>]),
     GRect([min |-> Origin, max |-> Far]),
     GMultiLineString(<<(<<Origin, Origin>>), <<Origin, <<0, MaxCoord>>>>>>),
     GGeometryCollection(<<GPoint(<<MaxCoord, 0>>), GMultiPoint(<<Origin, Far>>)>>)}

Geometries ==
    {GPoint(c) : c \in Coords}
        \cup {GLine(l) : l \in Lines}
        \cup {GLineString(ls) : ls \in LineStrings}
        \cup {GMultiPoint(mp) : mp \in MultiPoints}
        \cup {GMultiLineString(mls) : mls \in SeqsUpTo(SampleLineStrings, MaxMembers)}
        \cup {GPolygon(p) : p \in Polygons}
        \cup {GMultiPolygon(mp) : mp \in SeqsUpTo(SamplePolygons, MaxMembers)}
        \cup {GGeometryCollection(gc) : gc \in SeqsUpTo(SampleGeometries, MaxMembers)}

\* the geometries that never reach the engine
Direct(g) == g.type \in {"Point", "Line"}

\* the resolutions and the engine splits tried on a geometry
ResolutionsFor(g) ==
    IF Direct(g) THEN ArcResolutions
    ELSE IF g.type \in {"LineString", "Polygon"} THEN CompoundResolutions
    ELSE {Default}

CutsFor(g) == IF Direct(g) \/ g.type = "Polygon" THEN {{}} ELSE Cuts

\* the values atan2 can return, with the sign bit
AtanValues ==
    {a \in [v : (0 - TAU \div 2)..(TAU \div 2), neg : BOOLEAN] :
        (a.v < 0 => a.neg) /\ (a.v > 0 => ~a.neg)}

ArcVertex(center, radius, a) ==
    [c |-> center, r |-> radius, num |-> a.v, den |-> 1, neg |-> a.neg]

ArcCalls ==
    {[center |-> <<0, 0>>, radius |-> r, start_vertex |-> ArcVertex(<<0, 0>>, r, s),
      end_vertex |-> ArcVertex(<<0, 0>>, r, e), outwards |-> o, vertices |-> vs] :
        r \in 0..(MaxDist + 1), s \in AtanValues, e \in AtanValues, o \in BOOLEAN,
        vs \in {<<>>, <<PolarVertex(<<1, 1>>, 1, 1, 1)>>}}

NoArc ==
    [center |-> <<0, 0>>, radius |-> 0, start_vertex |-> ArcVertex(<<0, 0>>, 0, [v |-> 0, neg |-> FALSE]),
     end_vertex |-> ArcVertex(<<0, 0>>, 0, [v |-> 0, neg |-> FALSE]), outwards |-> FALSE,
     vertices |-> <<>>]

---------------------------------------------------------------------------
(* The calls *)

InitOffsetWith ==
    /\ op = "offset_with_arc_resolution"
    /\ geometry \in Geometries
    /\ distance \in Distances
    /\ arc_resolution \in ResolutionsFor(geometry)
    /\ cut \in CutsFor(geometry)
    /\ arc = NoArc
    /\ vertices = <<>>

InitOffset ==
    /\ op = "offset"
    /\ geometry \in {g \in Geometries : g.type \in {"Point", "Line", "MultiPoint"}}
                        \cup SampleGeometries \cup {GPolygon(p) : p \in SamplePolygons}
    /\ distance \in Distances
    /\ arc_resolution = Default
    /\ cut \in CutsFor(geometry)
    /\ arc = NoArc
    /\ vertices = <<>>

InitCreateArc ==
    /\ op = "create_arc"
    /\ geometry = GPoint(<<0, 0>>)
    /\ distance = [neg |-> FALSE, mag |-> 0]
    /\ arc_resolution \in ArcResolutions
    /\ cut = {}
    /\ arc \in ArcCalls
    /\ vertices = arc.vertices

Init ==
    /\ pc = "call"
    /\ result = NoResult
    /\ (InitOffsetWith \/ InitOffset \/ InitCreateArc)

Return(r) ==
    /\ pc' = "done"
    /\ result' = r
    /\ UNCHANGED <<op, geometry, distance, arc_resolution, cut, arc, vertices>>

Calls(type) == pc = "call" /\ op = "offset_with_arc_resolution" /\ geometry.type = type

OffsetPoint == Calls("Point") /\ Return(offset_Point(geometry.point, distance, arc_resolution))

OffsetLine == Calls("Line") /\ Return(offset_Line(geometry.line, distance, arc_resolution))

OffsetLineString ==
    Calls("LineString") /\ Return(offset_LineString(geometry.line_string, distance, arc_resolution))

OffsetMultiPoint ==
    Calls("MultiPoint") /\ Return(offset_MultiPoint(geometry.multi_point, distance, arc_resolution))

OffsetMultiLineString ==
    Calls("MultiLineString")
        /\ Return(offset_MultiLineString(geometry.multi_line_string, distance, arc_resolution))

OffsetPolygon == Calls("Polygon") /\ Return(offset_Polygon(geometry.polygon, distance, arc_resolution))

OffsetMultiPolygon ==
    Calls("MultiPolygon") /\ Return(offset_MultiPolygon(geometry.multi_polygon, distance, arc_resolution))

OffsetGeometryCollection ==
    Calls("GeometryCollection")
        /\ Return(offset_GeometryCollection(geometry.geometry_collection, distance, arc_resolution))

OffsetDefault == pc = "call" /\ op = "offset" /\ Return(offset(geometry, distance))

CreateArc ==
    /\ pc = "call"
    /\ op = "create_arc"
    /\ pc' = "done"
    /\ vertices' = create_arc(vertices, arc.center, arc.radius, arc.start_vertex,
                              arc.end_vertex, arc_resolution, arc.outwards)
    /\ UNCHANGED <<op, geometry, distance, arc_resolution, cut, arc, result>>

Next ==
    \/ OffsetPoint
    \/ OffsetLine
    \/ OffsetLineString
    \/ OffsetMultiPoint
    \/ OffsetMultiLineString
    \/ OffsetPolygon
    \/ OffsetMultiPolygon
    \/ OffsetGeometryCollection
    \/ OffsetDefault
    \/ CreateArc

Spec == Init /\ [][Next]_vars

---------------------------------------------------------------------------
(* Properties *)

Done == pc = "done"

Called(type) == Done /\ op = "offset_with_arc_resolution" /\ geometry.type = type

Positive(d) == ~d.neg /\ d.mag > 0

\* C1: with a distance d < 0, offset_with_arc_resolution on a Point, Line,
\* LineString, MultiPoint or MultiLineString returns Ok with the empty polygon
\* set, whatever the coordinates, the members and the arc resolution.
C1_NegativeDistanceGivesEmpty ==
    (/\ Done
     /\ op = "offset_with_arc_resolution"
     /\ geometry.type \in {"Point", "Line", "LineString", "MultiPoint", "MultiLineString"}
     /\ LtZero(distance))
        => result = Ok(<<>>)

C1_Witness ==
    /\ Called("MultiLineString")
    /\ LtZero(distance)
    /\ Len(geometry.multi_line_string) = 2
    /\ Len(geometry.multi_line_string[1]) = 2
    /\ result = Ok(<<>>)

\* C2: a Line whose start and end coincide, offset by d >= 0, does not fail and
\* returns exactly what the Point offset at its start returns for the same
\* distance and arc resolution.
C2_CoincidentLineIsPointOffset ==
    (Called("Line") /\ geometry.line.start = geometry.line.end /\ GeZero(distance))
        => /\ result.ok
           /\ result = offset_Point(geometry.line.start, distance, arc_resolution)

C2_Witness ==
    /\ Called("Line")
    /\ geometry.line.start = geometry.line.end
    /\ Positive(distance)
    /\ arc_resolution.kind = "SegmentLength"
    /\ result.ok
    /\ Len(result.polys) = 1
    /\ Len(result.polys[1].exterior) > 3

\* the two ring offsets of a polygon, taken with the distance |d|
ExteriorOffset == offset_LineString(geometry.polygon.exterior, abs(distance), arc_resolution)

InteriorsOffset == offset_MultiLineString(geometry.polygon.interiors, abs(distance), arc_resolution)

\* C3: a Polygon P offset by d gives (P union E) union I for every d >= 0, a zero
\* distance of either sign included, and (P difference E) difference I for every
\* d < 0, E and I being the exterior and interior ring offsets taken with |d|.
C3_SignSelectsUnionOrDifference ==
    Called("Polygon")
        => result = Ok(IF GeZero(distance)
                       THEN grow(PolygonCells(geometry.polygon), ExteriorOffset.polys,
                                 InteriorsOffset.polys)
                       ELSE shrink(PolygonCells(geometry.polygon), ExteriorOffset.polys,
                                   InteriorsOffset.polys))

\* two consecutive coincident vertices in a coordinate sequence
DegenerateIn(ls) == \E i \in 1..(Len(ls) - 1) : ls[i] = ls[i + 1]

DegenerateInPolygon(p) ==
    DegenerateIn(p.exterior) \/ \E h \in DOMAIN p.interiors : DegenerateIn(p.interiors[h])

\* a degenerate segment inside a polyline, a ring or a member of a collection
RECURSIVE HasDegenerateInside(_)

HasDegenerateInside(g) ==
    CASE g.type = "LineString" -> DegenerateIn(g.line_string)
      [] g.type = "Polygon" -> DegenerateInPolygon(g.polygon)
      [] g.type = "Rect" -> DegenerateInPolygon(Rect_to_polygon(g.rect))
      [] g.type = "Triangle" -> DegenerateInPolygon(Triangle_to_polygon(g.triangle))
      [] g.type = "MultiLineString" ->
            \E k \in DOMAIN g.multi_line_string : DegenerateIn(g.multi_line_string[k])
      [] g.type = "MultiPolygon" ->
            \E k \in DOMAIN g.multi_polygon : DegenerateInPolygon(g.multi_polygon[k])
      [] g.type = "GeometryCollection" ->
            \E k \in DOMAIN g.geometry_collection :
                HasDegenerateInside(g.geometry_collection[k])
      [] OTHER -> FALSE

\* C5, as claimed: a degenerate segment inside a polyline, a ring of a polygon
\* or a member of a collection makes the offset with d >= 0 return
\* OffsetError::EdgeError.
C5_DegenerateInsideFails ==
    (/\ Done
     /\ op = "offset_with_arc_resolution"
     /\ GeZero(distance)
     /\ HasDegenerateInside(geometry))
        => result = Err("EdgeError")

\* C5, amended: a degenerate segment is recovered into the point offset wherever
\* it occurs, alone or inside a polyline, a ring or a member of a collection:
\* the offset with d >= 0 returns Ok, never OffsetError::EdgeError, and a
\* polyline's segment union covers the point offset at the coincident vertices.
C5_DegenerateRecoveredEverywhere ==
    (/\ Done
     /\ op = "offset_with_arc_resolution"
     /\ GeZero(distance)
     /\ HasDegenerateInside(geometry))
        => /\ result.ok
           /\ result.err = "none"
           /\ geometry.type = "LineString" =>
                \A i \in 1..(Len(geometry.line_string) - 1) :
                    geometry.line_string[i] = geometry.line_string[i + 1]
                        => Disk(geometry.line_string[i], distance.mag)
                             \subseteq Cells(line_string_union(geometry.line_string, distance,
                                                               arc_resolution).polys)

C5_Witness ==
    /\ Called("GeometryCollection")
    /\ Positive(distance)
    /\ Len(geometry.geometry_collection) = 2
    /\ geometry.geometry_collection[2].type = "LineString"
    /\ HasDegenerateInside(geometry.geometry_collection[2])
    /\ result.ok
    /\ result.polys # <<>>

\* C6: the default arc resolution is SegmentCount(5), and offset(d) returns what
\* offset_with_arc_resolution(d, SegmentCount(5)) returns.
C6_DefaultIsFiveSegments ==
    /\ Default = SegmentCount(5)
    /\ (Done /\ op = "offset")
          => result = offset_with_arc_resolution(geometry, distance, SegmentCount(5))

C6_Witness ==
    /\ Done
    /\ op = "offset"
    /\ geometry.type = "Line"
    /\ geometry.line.start # geometry.line.end
    /\ Positive(distance)
    /\ result.ok
    /\ Len(result.polys) = 1
    /\ Len(result.polys[1].exterior) = 12

\* the angles of the current create_arc call, as the code computes them
StartAngle == normalize_angle(atan2(arc.start_vertex, arc.center))

EndAngle == normalize_angle(atan2(arc.end_vertex, arc.center))

Swept == swept_angle(StartAngle, EndAngle)

ArcDone == Done /\ op = "create_arc"

\* the vertices the call appended
Appended == SubSeq(vertices, Len(arc.vertices) + 1, Len(vertices))

\* C7: under SegmentLength(target) an arc of positive length gets
\* ceil(arc_length / target) segments, arc_length being swept angle * radius in
\* create_arc and TAU * distance for the circle of a point, where the count used
\* is the larger of that and 3.
C7_SegmentCountIsCeiling ==
    /\ (ArcDone /\ arc_resolution.kind = "SegmentLength" /\ Swept * arc.radius > 0)
          => Len(Appended) = Ceil(Swept * arc.radius, arc_resolution.len) + 1
    /\ (Called("Point") /\ arc_resolution.kind = "SegmentLength" /\ GeZero(distance))
          => Len(result.polys[1].exterior)
               = Max(Ceil(TAU * distance.mag, arc_resolution.len), 3)

\* C8, as claimed: both normalized angles and the swept angle of create_arc lie
\* in [0, TAU), start and end at the same angle included.
C8_AnglesBelowFullTurn ==
    ArcDone
        => /\ 0 <= StartAngle /\ StartAngle < TAU
           /\ 0 <= EndAngle /\ EndAngle < TAU
           /\ 0 <= Swept /\ Swept < TAU

\* C8, amended: both normalized angles and the swept angle lie in [0, TAU], the
\* full turn included: a normalized angle is TAU only when atan2 gave -0.0, the
\* swept angle is TAU when start and end are at the same angle, and it is 0 only
\* when the start angle is 0 and the end angle is TAU.
C8_AnglesWithinFullTurn ==
    ArcDone
        => /\ 0 <= StartAngle /\ StartAngle <= TAU
           /\ 0 <= EndAngle /\ EndAngle <= TAU
           /\ 0 <= Swept /\ Swept <= TAU
           /\ StartAngle = TAU => atan2(arc.start_vertex, arc.center) = [v |-> 0, neg |-> TRUE]
           /\ EndAngle = TAU => atan2(arc.end_vertex, arc.center) = [v |-> 0, neg |-> TRUE]
           /\ StartAngle = EndAngle => Swept = TAU
           /\ Swept = 0 => (StartAngle = 0 /\ EndAngle = TAU)

C8_Witness ==
    /\ ArcDone
    /\ arc.radius > 0
    /\ StartAngle = EndAngle
    /\ StartAngle > 0
    /\ Swept = TAU
    /\ Len(Appended) > 2

\* the segment count of the current create_arc call
ArcSegments == arc_segment_count(arc_resolution, Swept, arc.radius)

\* C9: create_arc with segment count n >= 1 appends exactly n + 1 vertices and
\* changes nothing already in the sequence; the first is the start vertex, the
\* last the end vertex as given, and the n - 1 between them are at the angles
\* start_angle + step * i, step being -swept/n outwards and (TAU - swept)/n
\* otherwise, so that start_angle + step * n is end_angle modulo TAU.
C9_ArcVertices ==
    (ArcDone /\ ArcSegments >= 1)
        => LET n == ArcSegments
               old == Len(arc.vertices)
               step_n == IF arc.outwards THEN 0 - Swept ELSE TAU - Swept
           IN  /\ Len(vertices) = old + n + 1
               /\ SubSeq(vertices, 1, old) = arc.vertices
               /\ vertices[old + 1] = arc.start_vertex
               /\ vertices[old + n + 1] = arc.end_vertex
               /\ \A i \in 1..(n - 1) :
                     vertices[old + 1 + i]
                        = PolarVertex(arc.center, arc.radius, StartAngle * n + step_n * i, n)
               /\ (StartAngle + step_n - EndAngle) % TAU = 0

C9_Witness ==
    /\ ArcDone
    /\ ArcSegments >= 2
    /\ ~arc.outwards
    /\ arc.radius > 0
    /\ arc.vertices # <<>>
    /\ Swept \notin {0, TAU}
    /\ Len(vertices) = Len(arc.vertices) + ArcSegments + 1

\* the polygons the segment union of the current LineString call returns
U == line_string_union(geometry.line_string, distance, arc_resolution).polys

\* C10: a LineString offset by d >= 0 returns Ok; with U the union of its segment
\* capsules, the result is the first polygon of U minus every later one, so it
\* keeps nothing a later polygon of U covers, and it is empty when U is empty,
\* as it is for fewer than two vertices.
C10_FirstPolygonMinusTheRest ==
    (Called("LineString") /\ GeZero(distance))
        => LET u == U
               kept == Cells(result.polys)
           IN  /\ result.ok
               /\ Len(geometry.line_string) < 2 => u = <<>>
               /\ u = <<>> => result.polys = <<>>
               /\ Len(u) = 1 => result.polys = u
               /\ Len(u) >= 1 => kept = u[1].cells \ UNION {u[k].cells : k \in 2..Len(u)}
               /\ \A k \in 2..Len(u) : kept \cap u[k].cells = {}

C10_Witness ==
    /\ Called("LineString")
    /\ Positive(distance)
    /\ geometry.line_string = CrossingLineString
    /\ Len(U) >= 2
    /\ result.ok
    /\ Cells(result.polys) = U[1].cells

====
